---- MODULE Spec2Model ----
(***************************************************************************)
(* Model of schema.py: typed fields, Schema, Deserializer, Datastore and   *)
(* the Program command loop.  Text is a sequence of one-character strings, *)
(* so that splitting, stripping and integer parsing are computed the way   *)
(* the Python code computes them.                                          *)
(***************************************************************************)
EXTENDS Integers, Sequences, FiniteSets, TLC

(***************************************************************************)
(* Bounds                                                                  *)
(***************************************************************************)
\* the model stops adding once the store holds this many records
MaxStore == 2

(***************************************************************************)
(* Python text primitives                                                  *)
(***************************************************************************)
SP == " "
QUOTE == "'"
DigitChars == <<"0", "1", "2", "3", "4", "5", "6", "7", "8", "9">>

IsDigitChar(c) == \E i \in 1..10 : DigitChars[i] = c

DigitVal(c) == (CHOOSE i \in 1..10 : DigitChars[i] = c) - 1

\* index of the first occurrence of c in s, 0 when there is none
FirstIdx(s, c) ==
    IF \E i \in 1..Len(s) : s[i] = c
    THEN CHOOSE i \in 1..Len(s) : s[i] = c /\ \A j \in 1..(i - 1) : s[j] # c
    ELSE 0

\* str.split(sep) with a one-character separator: always at least one token,
\* consecutive separators give empty tokens
RECURSIVE Split(_, _)
Split(s, sep) ==
    LET i == FirstIdx(s, sep)
    IN IF i = 0 THEN <<s>>
       ELSE <<SubSeq(s, 1, i - 1)>> \o Split(SubSeq(s, i + 1, Len(s)), sep)

\* str.split(" ", 1)
SplitOnce(s) ==
    LET i == FirstIdx(s, SP)
    IN IF i = 0 THEN <<s>>
       ELSE <<SubSeq(s, 1, i - 1), SubSeq(s, i + 1, Len(s))>>

\* str.strip(): the only whitespace character of the model's alphabet is SP
RECURSIVE LStrip(_)
LStrip(s) == IF Len(s) > 0 /\ s[1] = SP THEN LStrip(Tail(s)) ELSE s

RECURSIVE RStrip(_)
RStrip(s) ==
    IF Len(s) > 0 /\ s[Len(s)] = SP THEN RStrip(SubSeq(s, 1, Len(s) - 1)) ELSE s

Strip(s) == RStrip(LStrip(s))

\* str.replace("-", "_")
ReplaceHyphen(s) == [i \in 1..Len(s) |-> IF s[i] = "-" THEN "_" ELSE s[i]]

\* U+00B2 SUPERSCRIPT TWO, as one character of the alphabet: a character
\* that is a digit for str.isdigit() and not a decimal digit for int()
SUP2 == "sup2"

\* the characters str.isdigit() accepts
IsDigitLikeChar(c) == IsDigitChar(c) \/ c = SUP2

\* str.isdigit()
IsDigit(s) == Len(s) > 0 /\ \A i \in 1..Len(s) : IsDigitLikeChar(s[i])

\* str.startswith("'") and str.endswith("'")
StartsWithQuote(s) == Len(s) > 0 /\ s[1] = QUOTE
EndsWithQuote(s) == Len(s) > 0 /\ s[Len(s)] = QUOTE

RECURSIVE DigitsValue(_)
DigitsValue(s) ==
    IF Len(s) = 0 THEN 0
    ELSE IF s[Len(s)] = "_" THEN DigitsValue(SubSeq(s, 1, Len(s) - 1))
    ELSE 10 * DigitsValue(SubSeq(s, 1, Len(s) - 1)) + DigitVal(s[Len(s)])

\* the digit part of an int() literal: digits, single underscores between them
IsIntBody(b) ==
    /\ Len(b) > 0
    /\ IsDigitChar(b[1])
    /\ IsDigitChar(b[Len(b)])
    /\ \A i \in 1..Len(b) : IsDigitChar(b[i]) \/ b[i] = "_"
    /\ \A i \in 1..(Len(b) - 1) : ~(b[i] = "_" /\ b[i + 1] = "_")

\* int(text): surrounding whitespace stripped, optional sign; ok = FALSE
\* stands for ValueError
PyInt(s) ==
    LET t == Strip(s)
        signed == Len(t) > 0 /\ t[1] \in {"-", "+"}
        body == IF signed THEN Tail(t) ELSE t
    IN IF IsIntBody(body)
       THEN [ok |-> TRUE,
             n |-> IF signed /\ t[1] = "-" THEN 0 - DigitsValue(body)
                   ELSE DigitsValue(body)]
       ELSE [ok |-> FALSE, n |-> 0]

(***************************************************************************)
(* Values and field types                                                  *)
(***************************************************************************)
None == [tag |-> "none", s |-> <<>>, n |-> 0]
Str(s) == [tag |-> "str", s |-> s, n |-> 0]
IntVal(n) == [tag |-> "int", s |-> <<>>, n |-> n]
FloatVal(n) == [tag |-> "float", s |-> <<>>, n |-> n]

W_string == <<"s", "t", "r", "i", "n", "g">>
W_int == <<"i", "n", "t">>

\* Type.__init__ / StringType.__init__: value starts as None.  id is the
\* identity of the field object, 0 until the object is placed (see Allocate)
StringType(name, max_len) ==
    [type |-> "StringType", name |-> name, max_len |-> max_len, value |-> None,
     id |-> 0]

IntType(name) ==
    [type |-> "IntType", name |-> name, max_len |-> 0, value |-> None, id |-> 0]

\* a dictionary entry whose value is None (unpack_type returned nothing)
NoType(name) ==
    [type |-> "NoneType", name |-> name, max_len |-> 0, value |-> None, id |-> 0]

\* Type.set_value
set_value(f, value) == [f EXCEPT !.value = value]

\* a string rule that measures the text between the quotes
StringType_validate_LenWithoutQuotes(f) ==
    IF f.value.tag # "str" THEN "AssertionError"
    ELSE IF ~(Len(f.value.s) - 2 <= f.max_len) THEN "AssertionError"
    ELSE IF ~(StartsWithQuote(f.value.s) /\ EndsWithQuote(f.value.s))
         THEN "AssertionError"
    ELSE "ok"

\* StringType.validate: "ok" or the exception raised
StringType_validate(f) ==
    IF f.value.tag # "str" THEN "AssertionError"
    ELSE IF ~(Len(f.value.s) <= f.max_len) THEN "AssertionError"
    ELSE IF ~(StartsWithQuote(f.value.s) /\ EndsWithQuote(f.value.s))
         THEN "AssertionError"
    ELSE "ok"

\* IntType.validate
IntType_validate(f) ==
    IF f.value.tag = "str"
    THEN (IF IsDigit(f.value.s) THEN "ok" ELSE "AssertionError")
    ELSE (IF f.value.tag = "int" THEN "ok" ELSE "AssertionError")

\* field.validate() on whatever the dictionary holds
Field_validate(f) ==
    CASE f.type = "StringType" -> StringType_validate(f)
      [] f.type = "IntType" -> IntType_validate(f)
      [] OTHER -> "AttributeError"

(***************************************************************************)
(* Schema: fields is the dictionary, as the sequence of its entries in     *)
(* insertion order                                                         *)
(***************************************************************************)
\* Schema.validate: the first failing field decides
Schema_validate(fields) ==
    LET bad == {i \in 1..Len(fields) : Field_validate(fields[i]) # "ok"}
    IN IF bad = {} THEN "ok"
       ELSE Field_validate(fields[CHOOSE i \in bad : \A j \in bad : i <= j])

\* Schema.build
build(fields) == Schema_validate(fields)

Min(a, b) == IF a < b THEN a ELSE b

\* a zip loop that hands the first value to every field
ZipAssign_FirstToAll(fields, values) ==
    LET n == Min(Len(fields), Len(values))
        bad == {i \in 1..n : fields[i].type = "NoneType"}
    IN [exc |-> IF bad = {} THEN "ok" ELSE "AttributeError",
        fields |-> [i \in 1..Len(fields) |->
                      IF bad = {} /\ i <= n
                      THEN set_value(fields[i], Str(values[1]))
                      ELSE fields[i]]]

\* the zip loop of set_values: positional assignment, stopping at the first
\* entry that has no set_value
ZipAssign(fields, values) ==
    LET n == Min(Len(fields), Len(values))
        bad == {i \in 1..n : fields[i].type = "NoneType"}
        stop == IF bad = {} THEN n + 1 ELSE CHOOSE i \in bad : \A j \in bad : i <= j
    IN [exc |-> IF bad = {} THEN "ok" ELSE "AttributeError",
        fields |-> [i \in 1..Len(fields) |->
                      IF i < stop /\ i <= n
                      THEN set_value(fields[i], Str(values[i]))
                      ELSE fields[i]]]

\* a variant of set_values that assigns and returns without build()
set_values_NoBuild(fields, values) ==
    IF Len(values) > 0 THEN ZipAssign(fields, values)
    ELSE [exc |-> "ok", fields |-> fields]

\* Schema.set_values: nothing at all for an empty list, otherwise assign and
\* build
set_values(fields, values) ==
    IF Len(values) > 0
    THEN LET z == ZipAssign(fields, values)
         IN IF z.exc # "ok" THEN z
            ELSE [exc |-> build(z.fields), fields |-> z.fields]
    ELSE [exc |-> "ok", fields |-> fields]

\* Schema.fieldlen
fieldlen(fields) == Len(fields)

\* a deserialize without the assertion on the number of tokens
deserialize_NoCountAssert(fields, data) == set_values(fields, Split(data, SP))

\* Deserializer.deserialize
deserialize(fields, data) ==
    LET values == Split(data, SP)
    IN IF Len(values) # fieldlen(fields)
       THEN [exc |-> "AssertionError", fields |-> fields]
       ELSE set_values(fields, values)

(***************************************************************************)
(* A Schema instance o = [fields, attrs]: fields is the dictionary held by *)
(* the instance attribute "fields", attrs the other entries of the         *)
(* instance's __dict__ as a set of [key, value]                            *)
(***************************************************************************)
W_fields == <<"f", "i", "e", "l", "d", "s">>

\* a dictionary of field objects as a value
Dict(d) == [tag |-> "dict", s |-> <<>>, n |-> 0, d |-> d]

\* key in ("fields"): the parentheses make no tuple, so this is the substring
\* test of str
IsSubstring(k, w) ==
    \E i \in 0..(Len(w) - Len(k)) : SubSeq(w, i + 1, i + Len(k)) = k

\* key in self.fields, self.fields[key]
HasField(fields, key) == \E j \in 1..Len(fields) : fields[j].name = key
FieldIdx(fields, key) == CHOOSE j \in 1..Len(fields) : fields[j].name = key

\* Schema.__init__
Schema_init(fields) == [fields |-> fields, attrs |-> {}]

\* object.__setattr__ on a name other than fields
RawPut(attrs, key, value) ==
    {a \in attrs : a.key # key} \cup {[key |-> key, value |-> value]}

\* Schema.__setattr__; the value written to the name fields is a dictionary
Schema_setattr(o, key, value) ==
    IF IsSubstring(key, W_fields)
    THEN (IF key = W_fields
          THEN [obj |-> [o EXCEPT !.fields = value.d], exc |-> "ok"]
          ELSE [obj |-> [o EXCEPT !.attrs = RawPut(o.attrs, key, value)],
                exc |-> "ok"])
    ELSE IF HasField(o.fields, key)
         THEN (IF o.fields[FieldIdx(o.fields, key)].type = "NoneType"
               THEN [obj |-> o, exc |-> "AttributeError"]
               ELSE [obj |-> [o EXCEPT !.fields[FieldIdx(o.fields, key)] =
                                          set_value(@, value)],
                     exc |-> "ok"])
    ELSE [obj |-> [o EXCEPT !.attrs = RawPut(o.attrs, key, value)], exc |-> "ok"]

\* reading o.key: the instance's __dict__ first, Schema.__getattr__ when the
\* name is not found there (key is no method name of Schema)
Schema_getattr(o, key) ==
    IF key = W_fields THEN [exc |-> "ok", ret |-> Dict(o.fields)]
    ELSE IF \E a \in o.attrs : a.key = key
         THEN [exc |-> "ok", ret |-> (CHOOSE a \in o.attrs : a.key = key).value]
    ELSE IF HasField(o.fields, key)
         THEN (IF o.fields[FieldIdx(o.fields, key)].type = "NoneType"
               THEN [exc |-> "AttributeError", ret |-> None]
               ELSE [exc |-> "ok", ret |-> o.fields[FieldIdx(o.fields, key)].value])
    ELSE [exc |-> "AttributeError", ret |-> None]

\* Schema.__call__(**kwargs): kwargs as the sequence of its [key, value]
RECURSIVE Schema_call(_, _)
Schema_call(fields, kwargs) ==
    IF Len(kwargs) = 0 THEN [exc |-> "ok", fields |-> fields]
    ELSE IF ~HasField(fields, Head(kwargs).key)
         THEN Schema_call(fields, Tail(kwargs))
    ELSE IF fields[FieldIdx(fields, Head(kwargs).key)].type = "NoneType"
         THEN [exc |-> "AttributeError", fields |-> fields]
    ELSE Schema_call([fields EXCEPT ![FieldIdx(fields, Head(kwargs).key)] =
                                       set_value(@, Head(kwargs).value)],
                     Tail(kwargs))

(***************************************************************************)
(* Datastore                                                               *)
(***************************************************************************)
NoRec == <<>>

Out(kind, exc, idx, rec) == [kind |-> kind, exc |-> exc, idx |-> idx, rec |-> rec]
OutNone == Out("none", "", 0 - 1, NoRec)
Raised(exc) == Out("exception", exc, 0 - 1, NoRec)

\* a save that reports the length after the insert as the index
save_OffByOne(store, data) ==
    [store |-> Append(store, data), idx |-> Len(store) + 1]

\* Datastore.save: append, return (len(store) - 1, data)
save(store, data) ==
    LET after == Append(store, data)
    IN [store |-> after, idx |-> Len(after) - 1]

\* a load that answers not-found for every index outside 0..len(store)-1
load_NegativeNotFound(store, index) ==
    IF index > Len(store) - 1 \/ index < 0 THEN OutNone
    ELSE Out("record", "", index, store[index + 1])

\* Datastore.load: only the upper bound is tested, then Python list indexing
load(store, index) ==
    IF index > Len(store) - 1 THEN OutNone
    ELSE IF index >= 0 THEN Out("record", "", index, store[index + 1])
    ELSE IF index >= 0 - Len(store)
         THEN Out("record", "", index, store[Len(store) + index + 1])
    ELSE Raised("IndexError")

\* Datastore.clear
clear(store) == <<>>

(***************************************************************************)
(* Program: the schema builder                                             *)
(***************************************************************************)
\* Program.key2type: the class for a kind keyword, None otherwise
key2type(key) ==
    IF key = W_string THEN "StringType"
    ELSE IF key = W_int THEN "IntType"
    ELSE "NoneType"

\* Program.unpack_type: details[0], details[1] and details[2] are plain
\* indexing (IndexError), the max length goes through int() (ValueError)
unpack_type(details) ==
    IF Len(details) < 1 THEN [exc |-> "IndexError", f |-> NoType(<<>>)]
    ELSE IF Len(details) < 2 THEN [exc |-> "IndexError", f |-> NoType(details[1])]
    ELSE LET fieldname == details[1]
             typez == key2type(details[2])
         IN IF typez = "StringType"
            THEN (IF Len(details) < 3
                  THEN [exc |-> "IndexError", f |-> NoType(fieldname)]
                  ELSE IF ~PyInt(details[3]).ok
                       THEN [exc |-> "ValueError", f |-> NoType(fieldname)]
                  ELSE [exc |-> "ok",
                        f |-> StringType(fieldname, PyInt(details[3]).n)])
            ELSE IF typez = "IntType"
                 THEN [exc |-> "ok", f |-> IntType(fieldname)]
            ELSE [exc |-> "ok", f |-> NoType(fieldname)]

\* fields[fieldname] = typz on an insertion-ordered dictionary
DictPut(fields, f) ==
    IF \E i \in 1..Len(fields) : fields[i].name = f.name
    THEN [i \in 1..Len(fields) |-> IF fields[i].name = f.name THEN f ELSE fields[i]]
    ELSE Append(fields, f)

RECURSIVE BuildFields(_, _)
BuildFields(types, fields) ==
    IF Len(types) = 0 THEN [exc |-> "ok", fields |-> fields]
    ELSE LET type_props == Split(Head(types), "|")
             typz == unpack_type(type_props)
         IN IF typz.exc # "ok" THEN [exc |-> typz.exc, fields |-> fields]
            ELSE BuildFields(Tail(types), DictPut(fields, typz.f))

\* Program.create_schema_instance
create_schema_instance(schema_template) ==
    BuildFields(Split(schema_template, SP), <<>>)

(***************************************************************************)
(* Object identity.  A record in the store is a Schema whose dictionary    *)
(* refers to field objects; a set_value on an object is seen through every *)
(* reference to it.                                                        *)
(***************************************************************************)
\* the identities of the field objects the store refers to
UsedIds(store) ==
    UNION {{store[i][j].id : j \in 1..Len(store[i])} : i \in 1..Len(store)} \ {0}

\* a builder that hands out the same field objects at every call
Allocate_Shared(fields, store) ==
    [k \in 1..Len(fields) |->
        IF fields[k].type = "NoneType" THEN fields[k]
        ELSE [fields[k] EXCEPT !.id = k]]

\* StringType(...) and IntType(...) in unpack_type construct new objects at
\* every call: each gets an identity that no live object has
Allocate(fields, store) ==
    LET used == UsedIds(store)
        free == {n \in 1..(Cardinality(used) + Len(fields)) : n \notin used}
        Kth(k) == CHOOSE n \in free : Cardinality({m \in free : m < n}) = k - 1
    IN [k \in 1..Len(fields) |->
          IF fields[k].type = "NoneType" THEN fields[k]
          ELSE [fields[k] EXCEPT !.id = Kth(k)]]

\* the store as seen after the objects of fields were assigned their values
WriteThrough(store, fields) ==
    [i \in 1..Len(store) |->
        [j \in 1..Len(store[i]) |->
            IF \E k \in 1..Len(fields) :
                  fields[k].id # 0 /\ fields[k].id = store[i][j].id
            THEN [store[i][j] EXCEPT !.value =
                    fields[CHOOSE k \in 1..Len(fields) :
                              fields[k].id = store[i][j].id].value]
            ELSE store[i][j]]]

(***************************************************************************)
(* Program: the commands, on self = [attrs, current_schema, store].        *)
(* attrs is the set of instance attributes that exist; store is the list   *)
(* held by self.datastore.  Each returns the new self and what was printed.*)
(***************************************************************************)
\* Python truthiness of self.current_schema: None and "" are both false
Truthy(v) == v.tag = "str" /\ Len(v.s) > 0

\* Program.set_schema: the assignment happens before datastore.clear()
Program_set_schema(self, schema_template) ==
    LET assigned == [self EXCEPT !.current_schema = Str(schema_template),
                                 !.attrs = @ \cup {"current_schema"}]
    IN IF "datastore" \notin self.attrs
       THEN [self |-> assigned, out |-> Raised("AttributeError")]
       ELSE [self |-> [assigned EXCEPT !.store = clear(self.store)],
             out |-> OutNone]

\* an add that appends the populated instance whether or not validation passed
Program_add_SaveAnyway(self, data) ==
    IF "current_schema" \notin self.attrs THEN [self |-> self, out |-> Raised("AttributeError")]
    ELSE IF ~Truthy(self.current_schema)
         THEN [self |-> self, out |-> Out("no_schema", "", 0 - 1, NoRec)]
    ELSE LET schema_instance == create_schema_instance(self.current_schema.s)
             record == deserialize(Allocate(schema_instance.fields, self.store), data)
             seen == WriteThrough(self.store, record.fields)
             saved == save(seen, record.fields)
         IN IF schema_instance.exc # "ok"
            THEN [self |-> self, out |-> Raised(schema_instance.exc)]
            ELSE IF "datastore" \notin self.attrs
                 THEN [self |-> self, out |-> Raised("AttributeError")]
            ELSE IF record.exc # "ok"
                 THEN [self |-> [self EXCEPT !.store = saved.store],
                       out |-> Raised(record.exc)]
            ELSE [self |-> [self EXCEPT !.store = saved.store],
                  out |-> Out("saved", "", saved.idx, record.fields)]

\* Program.add
Program_add(self, data) ==
    IF "current_schema" \notin self.attrs THEN [self |-> self, out |-> Raised("AttributeError")]
    ELSE IF ~Truthy(self.current_schema)
         THEN [self |-> self, out |-> Out("no_schema", "", 0 - 1, NoRec)]
    ELSE LET schema_instance == create_schema_instance(self.current_schema.s)
             record == deserialize(Allocate(schema_instance.fields, self.store), data)
             seen == WriteThrough(self.store, record.fields)
             saved == save(seen, record.fields)
         IN IF schema_instance.exc # "ok"
            THEN [self |-> self, out |-> Raised(schema_instance.exc)]
            ELSE IF record.exc # "ok"
                 THEN [self |-> [self EXCEPT !.store = seen],
                       out |-> Raised(record.exc)]
            ELSE IF "datastore" \notin self.attrs
                 THEN [self |-> self, out |-> Raised("AttributeError")]
            ELSE [self |-> [self EXCEPT !.store = saved.store],
                  out |-> Out("saved", "", saved.idx, record.fields)]

\* Program.get: self.datastore is evaluated before int(index)
Program_get(self, index) ==
    IF "datastore" \notin self.attrs THEN [self |-> self, out |-> Raised("AttributeError")]
    ELSE IF ~PyInt(index).ok THEN [self |-> self, out |-> Raised("ValueError")]
    ELSE [self |-> self, out |-> load(self.store, PyInt(index).n)]

(***************************************************************************)
(* Input lines of the session                                              *)
(***************************************************************************)
W_set_schema == <<"s", "e", "t", "_", "s", "c", "h", "e", "m", "a">>
W_set_schema_hyphen == <<"s", "e", "t", "-", "s", "c", "h", "e", "m", "a">>
W_add == <<"a", "d", "d">>
W_get == <<"g", "e", "t">>
W_run == <<"r", "u", "n">>
W_key2type == <<"k", "e", "y", "2", "t", "y", "p", "e">>
W_unpack_type == <<"u", "n", "p", "a", "c", "k", "_", "t", "y", "p", "e">>
W_create_schema_instance == <<"c", "r", "e", "a", "t", "e", "_", "s", "c", "h", "e", "m", "a", "_", "i", "n", "s", "t", "a", "n", "c", "e">>
W_datastore == <<"d", "a", "t", "a", "s", "t", "o", "r", "e">>
W_current_schema == <<"c", "u", "r", "r", "e", "n", "t", "_", "s", "c", "h", "e", "m", "a">>
W_delattr == <<"_", "_", "d", "e", "l", "a", "t", "t", "r", "_", "_">>
W_foo == <<"f", "o", "o">>

\* schema templates
T_int == <<"a", "|", "i", "n", "t">>
T_two_int == <<"a", "|", "i", "n", "t", " ", "b", "|", "i", "n", "t">>
T_str_int == <<"a", "|", "s", "t", "r", "i", "n", "g", "|", "3", " ", "b", "|", "i", "n", "t">>
T_unknown == <<"a", "|", "f", "o", "o">>
T_nolen == <<"a", "|", "s", "t", "r", "i", "n", "g">>
T_badlen == <<"a", "|", "s", "t", "r", "i", "n", "g", "|", "x">>
T_dup == <<"a", "|", "i", "n", "t", " ", "a", "|", "i", "n", "t">>
T_lead == <<" ", "a", "|", "i", "n", "t">>

\* data lines
D_5 == <<"5">>
D_07 == <<"0", "7">>
D_x == <<"x">>
D_5_07 == <<"5", " ", "0", "7">>
D_q12 == <<"'", "x", "'", " ", "1", "2">>
D_long == <<"'", "x", "y", "z", "'", " ", "1">>
D_lone == <<"'", " ", "1">>
D_three == <<"'", "x", "'", " ", "1", " ", "2">>
D_gap == <<"'", "x", "'", " ", " ", "1">>

\* index arguments
I_0 == <<"0">>
I_1 == <<"1">>
I_2 == <<"2">>
I_m1 == <<"-", "1">>
I_m3 == <<"-", "3">>
I_x == <<"x">>
I_sp0 == <<" ", "0">>

T_redecl == <<"a", "|", "f", "o", "o", " ", "a", "|", "i", "n", "t">>
Templates ==
    {T_int, T_two_int, T_str_int, T_unknown, T_nolen, T_badlen, T_dup, T_lead,
     T_redecl}
DataLines == {D_5, D_07, D_x, D_5_07, D_q12, D_long, D_lone, D_three, D_gap}
Indices == {I_0, I_1, I_2, I_m1, I_m3, I_x, I_sp0}

Line(cmd, arg) == cmd \o <<SP>> \o arg

\* what input() may return: command lines, bare commands, an empty line and
\* a line of blanks
Lines ==
    {Line(c, t) : c \in {W_set_schema_hyphen, W_set_schema}, t \in Templates}
    \cup {Line(W_add, d) : d \in DataLines}
    \cup {Line(W_get, i) : i \in Indices}
    \cup {Line(W_delattr, a) : a \in {W_datastore, W_current_schema, W_foo}}
    \cup {Line(W_key2type, W_int), Line(W_unpack_type, T_int),
          Line(W_create_schema_instance, T_int), Line(W_foo, D_5)}
    \cup {W_set_schema_hyphen, W_add, W_get, W_run, W_key2type, W_unpack_type,
          W_datastore, W_current_schema, W_foo, <<>>, <<SP, SP>>,
          <<SP>> \o Line(W_add, D_5) \o <<SP>>}

(***************************************************************************)
(* Program.run: one iteration of the loop per step                         *)
(***************************************************************************)
\* attrs, current_schema, store: the Program instance.  out: what the last
\* iteration printed.  pc, exit_code: the loop and the process.  The rest
\* records the session so far: last is the command just executed, everSet
\* whether set_schema was ever called, nAdds the successful adds and failedAdd
\* whether an add failed since the last set_schema, added the tokens and the
\* template of the add that stored each record.
\* obj, ures, built: a Schema instance used on its own, outside the session
\* (see the Schema operations below): the instance, the last operation on
\* it with its result, and its fields as constructed.
VARIABLES attrs, current_schema, store, out, last, pc, exit_code,
          everSet, nAdds, failedAdd, added, obj, ures, built

vars == <<attrs, current_schema, store, out, last, pc, exit_code,
          everSet, nAdds, failedAdd, added, obj, ures, built>>

progvars == <<attrs, current_schema, store, out, last, pc, exit_code,
              everSet, nAdds, failedAdd, added>>

URes(op, key, value, list, exc, ret) ==
    [op |-> op, key |-> key, value |-> value, list |-> list, exc |-> exc,
     ret |-> ret]

\* no Schema instance of its own during a session
NoSchemaObject ==
    /\ obj = [fields |-> <<>>, attrs |-> {}]
    /\ ures = URes("none", <<>>, None, <<>>, "ok", None)
    /\ built = <<>>

\* line.strip(), line.split(" ", 1), parts[0].replace("-", "_"), parts[1];
\* name is the first token as typed
Parse(line) ==
    LET parts == SplitOnce(Strip(line))
    IN [name |-> parts[1],
        cmd |-> ReplaceHyphen(parts[1]),
        arg |-> IF Len(parts) > 1 THEN parts[2] ELSE <<>>]

\* every input line with the result of parsing it
Parsed == {[line |-> l, p |-> Parse(l)] : l \in Lines}

\* the names getattr(self, name) can find: the methods of the class, the
\* instance attributes that currently exist, and what object provides (of
\* which the model has __delattr__)
InstanceAttr(name) ==
    IF name = W_datastore THEN "datastore"
    ELSE IF name = W_current_schema THEN "current_schema"
    ELSE "absent"

Lookup(as, name) ==
    IF name = W_set_schema THEN "set_schema"
    ELSE IF name = W_add THEN "add"
    ELSE IF name = W_get THEN "get"
    ELSE IF name = W_run THEN "run"
    ELSE IF name = W_key2type THEN "key2type"
    ELSE IF name = W_unpack_type THEN "unpack_type"
    ELSE IF name = W_create_schema_instance THEN "create_schema_instance"
    ELSE IF name = W_delattr THEN "__delattr__"
    ELSE IF InstanceAttr(name) \in as THEN InstanceAttr(name)
    ELSE "absent"

Self == [attrs |-> attrs, current_schema |-> current_schema, store |-> store]

\* object.__delattr__(self, name): removes an instance attribute; the list
\* of a deleted datastore is unreachable and is dropped from the state
Program_delattr(self, name) ==
    IF InstanceAttr(name) \notin self.attrs
    THEN [self |-> self, out |-> Raised("AttributeError")]
    ELSE [self |-> [attrs |-> self.attrs \ {InstanceAttr(name)},
                    current_schema |->
                        IF InstanceAttr(name) = "current_schema" THEN None
                        ELSE self.current_schema,
                    store |-> IF InstanceAttr(name) = "datastore" THEN <<>>
                              ELSE self.store],
          out |-> OutNone]

\* the methods that touch no state, called with the one argument the loop
\* passes: unpack_type indexes the characters of its text argument
Program_other(self, target, arg) ==
    CASE target = "run" -> [self |-> self, out |-> Raised("TypeError")]
      [] target = "key2type" ->
            [self |-> self,
             out |-> IF key2type(arg) = "NoneType" THEN OutNone
                     ELSE Out("value", "", 0 - 1, NoRec)]
      [] target = "unpack_type" ->
            [self |-> self,
             out |-> LET r == unpack_type([i \in 1..Len(arg) |-> <<arg[i]>>])
                     IN IF r.exc # "ok" THEN Raised(r.exc)
                        ELSE IF r.f.type = "NoneType" THEN OutNone
                        ELSE Out("value", "", 0 - 1, NoRec)]
      [] target = "create_schema_instance" ->
            [self |-> self,
             out |-> LET r == create_schema_instance(arg)
                     IN IF r.exc # "ok" THEN Raised(r.exc)
                        ELSE Out("value", "", 0 - 1, r.fields)]

\* method(arg) for the attribute the command name resolved to
Call(self, target, arg) ==
    CASE target = "set_schema" -> Program_set_schema(self, arg)
      [] target = "add" -> Program_add(self, arg)
      [] target = "get" -> Program_get(self, arg)
      [] target = "__delattr__" -> Program_delattr(self, arg)
      [] OTHER -> Program_other(self, target, arg)

\* a loop whose handler lets a command's exception end the session
after_command_Fatal(o) ==
    IF o.kind = "exception" THEN [pc |-> "exited", exit_code |-> 1]
    ELSE [pc |-> "running", exit_code |-> 0]

\* except Exception: traceback.print_exc(): the loop goes on to the next line
after_command(o) == [pc |-> "running", exit_code |-> 0]

\* Program.__init__
ProgramStart ==
    /\ attrs = {"datastore", "current_schema"}
    /\ current_schema = None
    /\ store = <<>>
    /\ out = Out("start", "", 0 - 1, NoRec)
    /\ last = [target |-> "start", name |-> <<>>, arg |-> <<>>]
    /\ pc = "running"
    /\ exit_code = 0
    /\ everSet = FALSE
    /\ nAdds = 0
    /\ failedAdd = FALSE
    /\ added = <<>>

Init == ProgramStart /\ NoSchemaObject

\* one command of the session: line resolves to target, which is called
Command(pl, target) ==
    LET p == pl.p
        r == Call(Self, target, p.arg)
        ac == after_command(r.out)
    IN /\ pc = "running"
       /\ Len(Strip(pl.line)) > 0
       /\ Lookup(attrs, p.cmd) = target
       /\ Len(r.self.store) <= MaxStore
       /\ attrs' = r.self.attrs
       /\ current_schema' = r.self.current_schema
       /\ store' = r.self.store
       /\ out' = r.out
       /\ last' = [target |-> target, name |-> p.name, arg |-> p.arg]
       /\ pc' = ac.pc
       /\ exit_code' = ac.exit_code
       /\ everSet' = (everSet \/ target = "set_schema")
       /\ nAdds' = IF target = "set_schema" THEN 0
                   ELSE IF r.out.kind = "saved" THEN nAdds + 1
                   ELSE nAdds
       /\ failedAdd' = IF target = "set_schema" THEN FALSE
                       ELSE (failedAdd \/ (target = "add" /\ r.out.kind = "exception"))
       /\ added' = IF r.self.store = <<>> THEN <<>>
                   ELSE IF r.out.kind = "saved"
                        THEN Append(added, [tokens |-> Split(p.arg, SP),
                                            template |-> current_schema.s])
                   ELSE added
       /\ UNCHANGED <<obj, ures, built>>

SetSchema == \E pl \in Parsed : Command(pl, "set_schema")
Add == \E pl \in Parsed : Command(pl, "add")
Get == \E pl \in Parsed : Command(pl, "get")
Delattr == \E pl \in Parsed : Command(pl, "__delattr__")
OtherMethod ==
    \E pl \in Parsed :
        \E target \in {"run", "key2type", "unpack_type", "create_schema_instance"} :
            Command(pl, target)

\* what the loop prints without calling anything
Report(kind, target, pl) ==
    /\ out' = Out(kind, "", 0 - 1, NoRec)
    /\ last' = [target |-> target, name |-> pl.p.name, arg |-> pl.p.arg]
    /\ UNCHANGED <<attrs, current_schema, store, pc, exit_code, everSet, nAdds,
                   failedAdd, added, obj, ures, built>>

\* if not line: continue
EmptyLine ==
    \E pl \in Parsed :
        /\ pc = "running"
        /\ Len(Strip(pl.line)) = 0
        /\ Report("ignored", "empty", pl)

\* hasattr is true but the attribute is not callable
NotCallable ==
    \E pl \in Parsed :
        /\ pc = "running"
        /\ Len(Strip(pl.line)) > 0
        /\ Lookup(attrs, pl.p.cmd) \in {"datastore", "current_schema"}
        /\ Report("not_callable", "attribute", pl)

\* hasattr is false: print(f"Unknown command: {cmd}")
Unknown ==
    \E pl \in Parsed :
        /\ pc = "running"
        /\ Len(Strip(pl.line)) > 0
        /\ Lookup(attrs, pl.p.cmd) = "absent"
        /\ Report("unknown", "absent", pl)

\* except EOFError: exit(0)
EndOfInput ==
    /\ pc = "running"
    /\ pc' = "exited"
    /\ exit_code' = 0
    /\ out' = Out("eof", "", 0 - 1, NoRec)
    /\ last' = [target |-> "eof", name |-> <<>>, arg |-> <<>>]
    /\ UNCHANGED <<attrs, current_schema, store, everSet, nAdds, failedAdd, added,
                   obj, ures, built>>

Next ==
    \/ SetSchema
    \/ Add
    \/ Get
    \/ Delattr
    \/ OtherMethod
    \/ EmptyLine
    \/ NotCallable
    \/ Unknown
    \/ EndOfInput

Spec == Init /\ [][Next]_vars

TypeOK ==
    /\ attrs \subseteq {"datastore", "current_schema"}
    /\ current_schema.tag \in {"none", "str"}
    /\ Len(store) <= MaxStore
    /\ pc \in {"running", "exited"}
    /\ Len(added) = Len(store)

(***************************************************************************)
(* The operations of a Schema instance, one call per step                  *)
(***************************************************************************)
K_a == <<"a">>
K_b == <<"b">>
K_f == <<"f">>
K_zz == <<"z", "z">>

\* the dictionaries a Schema is constructed with
UnitSchemas ==
    {<<IntType(K_a)>>, <<StringType(K_a, 3), IntType(K_b)>>,
     <<IntType(K_a), NoType(K_b)>>}

\* the dictionary written to the name fields
OtherDicts == {<<IntType(K_b)>>}

\* the names read and written as attributes: a is declared at construction,
\* f is not
AttrKeys == {K_a, K_f, W_fields}

\* raw values written to a field
RawValues ==
    {None, Str(<<>>), Str(<<QUOTE>>), Str(<<QUOTE, "x", QUOTE>>),
     Str(<<QUOTE, "x", "y", QUOTE>>), Str(<<"x">>), Str(<<"1", "2">>),
     Str(<<"-", "1">>), Str(<<SUP2>>), IntVal(3), FloatVal(3)}

\* values written to names that are no field
OtherValues == {IntVal(3)}

\* arguments of set_values, of __call__ and of deserialize
ValueLists ==
    {<<>>, <<<<"1">>>>, <<<<QUOTE, "x", QUOTE>>, <<"1", "2">>>>,
     <<<<"5">>, <<"x">>, <<"9">>>>}

KwargLists ==
    {<<>>, <<[key |-> K_a, value |-> Str(<<"7">>)]>>,
     <<[key |-> K_zz, value |-> IntVal(3)], [key |-> K_b, value |-> IntVal(3)]>>}

UnitData == {D_5, D_x, D_q12, D_long, D_gap}

SchemaInit ==
    /\ ProgramStart
    /\ \E fs \in UnitSchemas :
          /\ obj = Schema_init(fs)
          /\ built = fs
    /\ ures = URes("init", <<>>, None, <<>>, "ok", None)

\* Deserializer.deserialize(obj, data): what was assigned stays assigned when
\* validation raises
UDeserialize ==
    \E data \in UnitData :
        LET r == deserialize(obj.fields, data)
        IN /\ obj' = [obj EXCEPT !.fields = r.fields]
           /\ ures' = URes("deserialize", data, None, <<>>, r.exc, None)
           /\ UNCHANGED <<built, progvars>>

\* obj.set_values(values)
USetValues ==
    \E values \in ValueLists :
        LET r == set_values(obj.fields, values)
        IN /\ obj' = [obj EXCEPT !.fields = r.fields]
           /\ ures' = URes("set_values", <<>>, None, values, r.exc, None)
           /\ UNCHANGED <<built, progvars>>

\* obj(**kwargs)
UCall ==
    \E kwargs \in KwargLists :
        LET r == Schema_call(obj.fields, kwargs)
        IN /\ obj' = [obj EXCEPT !.fields = r.fields]
           /\ ures' = URes("call", <<>>, None, kwargs, r.exc, None)
           /\ UNCHANGED <<built, progvars>>

\* obj.key = value
USetAttr ==
    \E key \in AttrKeys :
        \E value \in (IF key = W_fields THEN {Dict(fs) : fs \in OtherDicts}
                       ELSE IF HasField(obj.fields, key) THEN RawValues
                       ELSE OtherValues) :
            LET r == Schema_setattr(obj, key, value)
            IN /\ obj' = r.obj
               /\ ures' = URes("setattr", key, value, <<>>, r.exc, None)
               /\ UNCHANGED <<built, progvars>>

\* obj.key
UGetAttr ==
    \E key \in AttrKeys :
        LET r == Schema_getattr(obj, key)
        IN /\ ures' = URes("getattr", key, None, <<>>, r.exc, r.ret)
           /\ UNCHANGED <<obj, built, progvars>>

\* obj.validate()
UValidate ==
    /\ ures' = URes("validate", <<>>, None, <<>>, Schema_validate(obj.fields), None)
    /\ UNCHANGED <<obj, built, progvars>>

\* obj.build()
UBuild ==
    /\ ures' = URes("build", <<>>, None, <<>>, build(obj.fields), None)
    /\ UNCHANGED <<obj, built, progvars>>

\* obj.fields[key].validate()
UValidateField ==
    \E j \in 1..Len(obj.fields) :
        /\ ures' = URes("validate_field", obj.fields[j].name, None, <<>>,
                        Field_validate(obj.fields[j]), None)
        /\ UNCHANGED <<obj, built, progvars>>

SchemaNext ==
    \/ UDeserialize
    \/ USetValues
    \/ UCall
    \/ USetAttr
    \/ UGetAttr
    \/ UValidate
    \/ UBuild
    \/ UValidateField

SchemaSpec == SchemaInit /\ [][SchemaNext]_vars

(***************************************************************************)
(* Properties                                                              *)
(***************************************************************************)
GetIndex == PyInt(last.arg)

\* a template whose field specs are all name|int or name|string|<int>, with
\* no name declared twice
WellFormedUnique(template) ==
    LET specs == Split(template, SP)
        props(i) == Split(specs[i], "|")
    IN /\ \A i \in 1..Len(specs) :
            /\ Len(props(i)) >= 2
            /\ props(i)[2] \in {W_string, W_int}
            /\ props(i)[2] = W_string => (Len(props(i)) >= 3 /\ PyInt(props(i)[3]).ok)
       /\ \A i, j \in 1..Len(specs) : i # j => props(i)[1] # props(j)[1]

\* the kind's rule, spelled out on a stored field
FieldRuleHolds(f) ==
    /\ f.value.tag = "str"
    /\ f.type \in {"StringType", "IntType"}
    /\ f.type = "StringType" =>
          /\ Len(f.value.s) <= f.max_len
          /\ Len(f.value.s) > 0
          /\ f.value.s[1] = QUOTE
          /\ f.value.s[Len(f.value.s)] = QUOTE
    /\ f.type = "IntType" =>
          /\ Len(f.value.s) > 0
          /\ \A k \in 1..Len(f.value.s) : IsDigitLikeChar(f.value.s[k])

\* C1: right after a set-schema command the datastore is empty, and a get of
\* an index >= 0 that follows it immediately reports not-found.
C1_SetSchemaEmptiesStore ==
    [][/\ last'.target = "set_schema" => ("datastore" \in attrs' /\ store' = <<>>)
       /\ (/\ last.target = "set_schema"
           /\ last'.target = "get"
           /\ PyInt(last'.arg).ok
           /\ PyInt(last'.arg).n >= 0) => out'.kind = "none"]_vars

\* C2: between two set-schema commands the k-th successful add returns index
\* k-1, which is len(store)-1 right after the insert, whatever failed adds and
\* gets came in between.
C2_IndexSequence ==
    (last.target = "add" /\ out.kind = "saved") =>
        (out.idx = nAdds - 1 /\ out.idx = Len(store) - 1)

C2_Witness ==
    /\ last.target = "add"
    /\ out.kind = "saved"
    /\ out.idx = 1
    /\ failedAdd

\* C3: every stored record has one set value per field of the template that
\* was active when it was added, and every value passes its kind's rule.
C3_StoredRecordsValid ==
    \A i \in 1..Len(store) :
        /\ Len(store[i]) = Len(create_schema_instance(added[i].template).fields)
        /\ \A j \in 1..Len(store[i]) :
              /\ FieldRuleHolds(store[i][j])
              /\ store[i][j].type =
                    create_schema_instance(added[i].template).fields[j].type
              /\ store[i][j].max_len =
                    create_schema_instance(added[i].template).fields[j].max_len

C3_Witness ==
    /\ last.target = "add"
    /\ out.kind = "exception"
    /\ Len(store) >= 1
    /\ \E i \in 1..Len(store) :
          Len(store[i]) = 2 /\ store[i][1].type = "StringType"

\* C4: under a well-formed template with unique names, the record an accepted
\* add stored at index i holds the tokens of its data line in declaration
\* order, and a get of i returns it, after any later adds and gets.
C4_RoundTrip ==
    \A i \in 1..Len(store) :
        WellFormedUnique(added[i].template) =>
            /\ Len(store[i]) = Len(added[i].tokens)
            /\ \A j \in 1..Len(store[i]) :
                  store[i][j].value = Str(added[i].tokens[j])
            /\ (last.target = "get" /\ GetIndex.ok /\ GetIndex.n = i - 1) =>
                  (out.kind = "record" /\ out.rec = store[i])

C4_Witness ==
    /\ last.target = "get"
    /\ GetIndex.ok
    /\ GetIndex.n = 0
    /\ out.kind = "record"
    /\ Len(store) = 2
    /\ Len(out.rec) = 2
    /\ out.rec[1].value # out.rec[2].value

\* C5: an add that fails on the token count or on validation leaves the
\* datastore contents, its length and the template as they were.
C5_FailedAddChangesNothing ==
    [][(last'.target = "add" /\ out'.kind = "exception") =>
          (store' = store /\ current_schema' = current_schema /\ attrs' = attrs)]_vars

C5_Witness ==
    /\ last.target = "add"
    /\ out.kind = "exception"
    /\ out.exc = "AssertionError"
    /\ Len(store) >= 1
    /\ "datastore" \in attrs

\* C6: before any set-schema command every add reports "No schema defined",
\* returns no index, raises nothing and leaves the store empty and the
\* template unset.
C6_AddBeforeSchema ==
    (~everSet /\ last.target = "add") =>
        (out.kind = "no_schema" /\ store = <<>> /\ current_schema = None)

\* C7: once a set-schema command was executed, with any template, no later
\* add takes the "No schema defined" path.
C7_NeverBackToNoSchema ==
    (everSet /\ last.target = "add") => out.kind # "no_schema"

\* C8: a get of an integer index i >= len(store) returns not-found without an
\* error, a get of 0 <= i < len(store) returns the stored record, and neither
\* changes the datastore or the template.
C8_GetInRangeOrNotFound ==
    [][(last'.target = "get" /\ PyInt(last'.arg).ok) =>
          /\ PyInt(last'.arg).n >= Len(store) => out'.kind = "none"
          /\ (PyInt(last'.arg).n >= 0 /\ PyInt(last'.arg).n < Len(store)) =>
                (out'.kind = "record" /\ out'.rec = store[PyInt(last'.arg).n + 1])
          /\ store' = store
          /\ current_schema' = current_schema]_vars

\* C9: no command ends the session: a failed add, a failed get and an unknown
\* command leave the program state intact and the loop running; the loop ends
\* only at end-of-input, with exit code 0.
C9_SessionSurvives ==
    [][/\ last'.target # "eof" => pc' = "running"
       /\ pc' = "exited" => (last'.target = "eof" /\ exit_code' = 0)
       /\ ((last'.target \in {"add", "get"} /\ out'.kind = "exception")
             \/ out'.kind = "unknown") =>
             (attrs' = attrs /\ current_schema' = current_schema /\ store' = store)]_vars

C9_Witness ==
    /\ pc = "running"
    /\ last.target = "get"
    /\ out.kind = "exception"
    /\ out.exc = "ValueError"
    /\ Len(store) >= 1

\* C10: a line whose first token is none of set-schema, add, get is answered
\* with "Unknown command" and changes neither the template nor the datastore.
C10_OtherTokensUnknown ==
    [][(/\ last'.target \notin {"empty", "eof"}
        /\ last'.name \notin {W_set_schema_hyphen, W_add, W_get}) =>
          /\ out'.kind = "unknown"
          /\ current_schema' = current_schema
          /\ store' = store
          /\ attrs' = attrs]_vars

\* C13: load tests only the upper bound: a get of a negative index i with
\* -len(store) <= i returns the record at position len(store)+i, and a get of
\* i < -len(store) fails with an error that the loop survives.
C13_NegativeIndex ==
    (last.target = "get" /\ GetIndex.ok /\ GetIndex.n < 0) =>
        /\ GetIndex.n >= 0 - Len(store) =>
              (out.kind = "record" /\ out.rec = store[Len(store) + GetIndex.n + 1])
        /\ GetIndex.n < 0 - Len(store) =>
              (out.kind = "exception" /\ pc = "running")

C13_Witness ==
    /\ last.target = "get"
    /\ GetIndex.ok
    /\ GetIndex.n = 0 - 1
    /\ Len(store) = 2
    /\ store[1] # store[2]
    /\ out.kind = "record"
    /\ out.rec = store[2]

\* no field object is referred to from two places of the store
NoSharedObjects(st) ==
    \A i1, i2 \in 1..Len(st) :
        \A j1 \in 1..Len(st[i1]) :
            \A j2 \in 1..Len(st[i2]) :
                (st[i1][j1].id = st[i2][j2].id) => (i1 = i2 /\ j1 = j2)

\* C14: every add builds its record from new field objects, so no stored
\* record shares a field with another and the field values of a stored record
\* are unchanged by every later add, successful or failed, and every get.
C14_RecordsNeverShare ==
    [][last'.target \in {"add", "get"} =>
          /\ Len(store') >= Len(store)
          /\ \A i \in 1..Len(store) : store'[i] = store[i]
          /\ NoSharedObjects(store')]_vars

C14_Witness ==
    /\ last.target = "add"
    /\ out.kind = "saved"
    /\ out.idx = 1
    /\ Len(store) = 2
    /\ failedAdd
    /\ store[1][1].value # store[2][1].value

\* a template with a field spec whose kind keyword is neither string nor int
HasUnknownKind(template) ==
    \E i \in 1..Len(Split(template, SP)) :
        /\ Len(Split(Split(template, SP)[i], "|")) >= 2
        /\ Split(Split(template, SP)[i], "|")[2] \notin {W_string, W_int}

\* C15: set-schema never fails, whatever the template: it stores the template
\* and empties the datastore; and under a template with a field spec of
\* unknown kind every add fails and the datastore stays empty.
C15_SetSchemaNeverFails ==
    [][/\ last'.target = "set_schema" =>
             /\ out'.kind = "none"
             /\ current_schema' = Str(last'.arg)
             /\ "datastore" \in attrs'
             /\ store' = <<>>
       /\ (/\ last'.target = "add"
           /\ current_schema.tag = "str"
           /\ HasUnknownKind(current_schema.s)) =>
             (out'.kind = "exception" /\ store' = <<>>)]_vars

\* the number of tokens of a data line: one more than its spaces
TokenCount(data) == Cardinality({i \in 1..Len(data) : data[i] = SP}) + 1

\* C11 as stated: deserialize fails exactly when the number of tokens, every
\* space separating two tokens, differs from the field count, and then no
\* field value has been assigned.
C11_FailsExactlyOnCount ==
    [][ures'.op = "deserialize" =>
          /\ (ures'.exc # "ok") <=> (TokenCount(ures'.key) # Len(obj.fields))
          /\ TokenCount(ures'.key) # Len(obj.fields) => obj'.fields = obj.fields]_vars

\* C11: deserialize fails at the token-count assertion exactly when the
\* number of tokens, every space separating two tokens, differs from the
\* field count, and then no field value has been assigned; with equal counts
\* it succeeds exactly when every field has a known kind and the token
\* assigned to it, in order, satisfies the kind's rule.
C11_CountAssertedFirst ==
    [][ures'.op = "deserialize" =>
          /\ Len(obj'.fields) = Len(obj.fields)
          /\ TokenCount(ures'.key) # Len(obj.fields) =>
                (ures'.exc = "AssertionError" /\ obj'.fields = obj.fields)
          /\ TokenCount(ures'.key) = Len(obj.fields) =>
                /\ (ures'.exc = "ok") <=>
                      \A j \in 1..Len(obj'.fields) : FieldRuleHolds(obj'.fields[j])
                /\ ures'.exc = "ok" =>
                      \A j \in 1..Len(obj'.fields) :
                         obj'.fields[j].value = Str(Split(ures'.key, SP)[j])]_vars

C11_Witness ==
    /\ ures.op = "deserialize"
    /\ ures.exc = "AssertionError"
    /\ \E i \in 1..(Len(ures.key) - 1) : ures.key[i] = SP /\ ures.key[i + 1] = SP
    /\ Len(obj.fields) = 2
    /\ obj.fields[1].value = None

\* C12: on a schema with at least one field set_values returns normally only
\* if every field passes its validation rule, for every value list, the
\* empty one included.
C12_SetValuesAlwaysValidates ==
    (ures.op = "set_values" /\ Len(obj.fields) >= 1) =>
        ((ures.exc = "ok") <=>
            \A j \in 1..Len(obj.fields) : Field_validate(obj.fields[j]) = "ok")

\* the field the last validate_field was called on
Validated == obj.fields[FieldIdx(obj.fields, ures.key)]

\* C16: a string field validates exactly when its value is text of length at
\* most max_len, quotes included, whose first and last characters are single
\* quotes.
C16_StringRule ==
    (ures.op = "validate_field" /\ Validated.type = "StringType") =>
        ((ures.exc = "ok") <=>
            /\ Validated.value.tag = "str"
            /\ Len(Validated.value.s) <= Validated.max_len
            /\ Len(Validated.value.s) >= 1
            /\ Validated.value.s[1] = QUOTE
            /\ Validated.value.s[Len(Validated.value.s)] = QUOTE)

C16_Witness ==
    /\ ures.op = "validate_field"
    /\ Validated.type = "StringType"
    /\ Validated.value.tag = "str"
    /\ Len(Validated.value.s) = Validated.max_len
    /\ ures.exc = "ok"

\* C17: an integer field validates exactly when its value is a native integer
\* or a non-empty text made only of the decimal digits 0..9.
C17_IntRule ==
    (ures.op = "validate_field" /\ Validated.type = "IntType") =>
        ((ures.exc = "ok") <=>
            \/ Validated.value.tag = "int"
            \/ /\ Validated.value.tag = "str"
               /\ Len(Validated.value.s) > 0
               /\ \A k \in 1..Len(Validated.value.s) :
                     IsDigitChar(Validated.value.s[k]))

\* the names, order and kinds of a dictionary of fields
Shape(fs) == [j \in 1..Len(fs) |-> [name |-> fs[j].name, type |-> fs[j].type]]

\* C18: no operation on a constructed Schema changes the names, order or
\* kinds of its fields, and a write to a declared name followed by a read of
\* it returns the written value.
C18_FieldsImmutable ==
    [][/\ Shape(obj'.fields) = Shape(built')
       /\ (/\ ures.op = "setattr"
           /\ ures.exc = "ok"
           /\ HasField(built, ures.key)
           /\ ures'.op = "getattr"
           /\ ures'.key = ures.key) =>
             (ures'.exc = "ok" /\ ures'.ret = ures.value)]_vars

====
